---- MODULE Spec2Model ----
(***************************************************************************)
(* Model of subscription_entitlements_engine/membership.py: the Membership *)
(* perk state machine (tier policy lookup, month-key refresh, rollover,    *)
(* perk use, tier change, billing sync, notification, audit log) and the   *)
(* MembershipService directory.                                            *)
(*                                                                         *)
(* Python values are modelled as follows.                                  *)
(*   datetime        a record [year, month, day]                           *)
(*   str (month key) the sequence of its characters                        *)
(*   Optional[int]   <<>> for None, <<v>> for the integer v                *)
(*   dict (audit)    a record; entry.update(details) is a record merge     *)
(*   exception       the name of the class raised, "None" on return        *)
(* A method is an operator from the object (and the clock reading) to a    *)
(* result [self, raised, calls]: the object after the call, the exception  *)
(* that left it, and the collaborator calls it made.                       *)
(***************************************************************************)
EXTENDS Integers, Sequences, FiniteSets, TLC

VARIABLES
    clock,        \* FakeClock._dt: what clock.now() returns
    members,      \* the Membership objects constructed so far, by member_id
    svc_members,  \* MembershipService._members: its keys in insertion order
    last,         \* the latest call: operation, arguments, outcome, heap before
    ncalls,       \* number of calls made
    threads       \* use_perk calls in progress, statement by statement

vars == <<clock, members, svc_members, last, ncalls, threads>>

\* Number of calls explored after construction.
MaxCalls == 2

-----------------------------------------------------------------------------
(* Inputs *)

Date(y, mo, d) == [year |-> y, month |-> mo, day |-> d]

\* Clock readings: construction time, the same month, the next month, the
\* same month a year later.
Instants == {Date(2025, 5, 1), Date(2025, 5, 20), Date(2025, 6, 1), Date(2026, 5, 1)}

StartInstant == Date(2025, 5, 1)

\* Tier names given to the constructor, apply_tier_change and the billing
\* provider; "Platinum" is not a key of TIER_POLICIES.
TierNames == {"Bronze", "Silver", "Gold", "Platinum"}

MemberIds == {"001"}

\* Ids looked up in the directory: the member's and one never added.
LookupIds == MemberIds \cup {"404"}

Subjects == {"Welcome"}

\* A BillingProvider: for each member id, get_member_tier returns a tier or raises.
BillingAnswers ==
    [raised : {"None"}, value : TierNames] \cup [raised : {"BillingError"}, value : {""}]

BillingProviders == [MemberIds -> BillingAnswers]

\* A Notifier: send returns or raises.
Notifiers == {"None", "NotifierError"}

-----------------------------------------------------------------------------
(* Tier policy *)

None == <<>>

Some(v) == <<v>>

TierPolicy(monthly_perks, rollover_unused, rollover_cap) ==
    [monthly_perks |-> monthly_perks,
     rollover_unused |-> rollover_unused,
     rollover_cap |-> rollover_cap]

TIER_POLICIES ==
    ("Bronze" :> TierPolicy(1, FALSE, None))
    @@ ("Silver" :> TierPolicy(2, FALSE, None))
    @@ ("Gold" :> TierPolicy(4, TRUE, Some(8)))

Min(a, b) == IF a <= b THEN a ELSE b

Max(a, b) == IF a >= b THEN a ELSE b

-----------------------------------------------------------------------------
(* month_key: f"{dt.year:04d}-{dt.month:02d}" *)

DigitChars == <<"0", "1", "2", "3", "4", "5", "6", "7", "8", "9">>

RECURSIVE Decimal(_)
Decimal(n) == IF n < 10 THEN <<DigitChars[n + 1]>>
              ELSE Decimal(n \div 10) \o <<DigitChars[(n % 10) + 1]>>

RECURSIVE ZeroPad(_, _)
ZeroPad(s, width) == IF Len(s) >= width THEN s ELSE ZeroPad(<<"0">> \o s, width)

month_key(dt) == ZeroPad(Decimal(dt.year), 4) \o <<"-">> \o ZeroPad(Decimal(dt.month), 2)

-----------------------------------------------------------------------------
(* Results of a call *)

Return(m) == [self |-> m, raised |-> "None", calls |-> <<>>]

Raise(m, exc) == [self |-> m, raised |-> exc, calls |-> <<>>]

Called(fn, args, result) == [result EXCEPT !.calls = <<[fn |-> fn, args |-> args]>> \o @]

-----------------------------------------------------------------------------
(* Membership *)

\* Seeded fault (C10): an unknown tier falls back to the Bronze policy.
policy_unknown_as_bronze(m) ==
    IF m.tier \notin DOMAIN TIER_POLICIES
    THEN TIER_POLICIES["Bronze"]
    ELSE TIER_POLICIES[m.tier]

policy(m) ==
    IF m.tier \notin DOMAIN TIER_POLICIES
    THEN TierPolicy(0, FALSE, None)
    ELSE TIER_POLICIES[m.tier]

\* Seeded fault (C7): the entry is inserted at the head of the log.
log_at_head(m, now, action, details) ==
    LET entry == [timestamp |-> now,
                  action |-> action,
                  member_id |-> m.member_id,
                  tier |-> m.tier]
        full == IF DOMAIN details /= {} THEN details @@ entry ELSE entry
    IN [m EXCEPT !.audit_log = <<full>> \o @]

log(m, now, action, details) ==
    LET entry == [timestamp |-> now,
                  action |-> action,
                  member_id |-> m.member_id,
                  tier |-> m.tier]
        full == IF DOMAIN details /= {} THEN details @@ entry ELSE entry
    IN [m EXCEPT !.audit_log = Append(@, full)]

initialize_month(m, now) ==
    LET p == policy(m)
        s == [m EXCEPT !.perks_available = p.monthly_perks, !.perks_used = 0]
    IN log(s, now, "init_month", [perks_available |-> s.perks_available])

Membership(member_id, tier, is_active, now) ==
    initialize_month(
        [member_id |-> member_id,
         tier |-> tier,
         is_active |-> is_active,
         perks_available |-> 0,
         perks_used |-> 0,
         audit_log |-> <<>>,
         current_month_key |-> month_key(now)],
        now)

\* Seeded fault (C1): the rollover cap is not applied.
refresh_for_new_month_uncapped(m, now) ==
    LET p == policy(m)
        unused == m.perks_available
        base == p.monthly_perks
        rollover_add == IF p.rollover_unused THEN unused ELSE 0
        new_total == base + rollover_add
        s == [m EXCEPT !.perks_available = new_total, !.perks_used = 0]
    IN log(s, now, "month_refresh",
           [unused_prev_month |-> unused, new_perks_available |-> s.perks_available])

\* Seeded fault (C5): unused perks roll over whatever the policy says.
refresh_for_new_month_always_rolls(m, now) ==
    LET p == policy(m)
        unused == m.perks_available
        base == p.monthly_perks
        total == base + unused
        new_total == IF p.rollover_cap /= None THEN Min(total, p.rollover_cap[1]) ELSE total
        s == [m EXCEPT !.perks_available = new_total, !.perks_used = 0]
    IN log(s, now, "month_refresh",
           [unused_prev_month |-> unused, new_perks_available |-> s.perks_available])

refresh_for_new_month(m, now) ==
    LET p == policy(m)
        unused == m.perks_available
        base == p.monthly_perks
        rollover_add == IF p.rollover_unused THEN unused ELSE 0
        total == base + rollover_add
        new_total == IF p.rollover_cap /= None THEN Min(total, p.rollover_cap[1]) ELSE total
        s == [m EXCEPT !.perks_available = new_total, !.perks_used = 0]
    IN log(s, now, "month_refresh",
           [unused_prev_month |-> unused, new_perks_available |-> s.perks_available])

\* Seeded fault (C9): the month key is not updated after the refresh.
refresh_if_needed_keeps_key(m, now) ==
    LET key == month_key(now)
    IN IF key /= m.current_month_key
       THEN refresh_for_new_month(m, now)
       ELSE m

\* Seeded fault (C15): a gap that crosses a year replays a second refresh.
refresh_if_needed_replays(m, now) ==
    LET key == month_key(now)
    IN IF key /= m.current_month_key
       THEN IF SubSeq(key, 1, 4) /= SubSeq(m.current_month_key, 1, 4)
            THEN [refresh_for_new_month(refresh_for_new_month(m, now), now)
                     EXCEPT !.current_month_key = key]
            ELSE [refresh_for_new_month(m, now) EXCEPT !.current_month_key = key]
       ELSE m

refresh_if_needed(m, now) ==
    LET key == month_key(now)
    IN IF key /= m.current_month_key
       THEN [refresh_for_new_month(m, now) EXCEPT !.current_month_key = key]
       ELSE m

\* Seeded fault (C2): perks_used is not incremented.
use_perk_keeps_used(m, now) ==
    LET r == refresh_if_needed(m, now)
    IN IF ~r.is_active
       THEN Raise(log(r, now, "use_perk_denied_inactive", None), "InactiveMemberError")
       ELSE IF r.perks_available <= 0
       THEN Raise(log(r, now, "use_perk_denied_no_perks", None), "NoPerksAvailableError")
       ELSE LET u == [r EXCEPT !.perks_available = @ - 1]
            IN Return(log(u, now, "perk_used", [perks_available |-> u.perks_available]))

\* Seeded fault (C3): the perk is charged before the activity check.
use_perk_charges_first(m, now) ==
    LET r == refresh_if_needed(m, now)
        u == [r EXCEPT !.perks_available = Max(@ - 1, 0), !.perks_used = @ + 1]
    IN IF ~r.is_active
       THEN Raise(log(u, now, "use_perk_denied_inactive", None), "InactiveMemberError")
       ELSE IF r.perks_available <= 0
       THEN Raise(log(r, now, "use_perk_denied_no_perks", None), "NoPerksAvailableError")
       ELSE Return(log(u, now, "perk_used", [perks_available |-> u.perks_available]))

\* Seeded fault (C8): perk_used is logged with the balance before the decrement.
use_perk_logs_old_balance(m, now) ==
    LET r == refresh_if_needed(m, now)
    IN IF ~r.is_active
       THEN Raise(log(r, now, "use_perk_denied_inactive", None), "InactiveMemberError")
       ELSE IF r.perks_available <= 0
       THEN Raise(log(r, now, "use_perk_denied_no_perks", None), "NoPerksAvailableError")
       ELSE LET u == [r EXCEPT !.perks_available = @ - 1, !.perks_used = @ + 1]
            IN Return(log(u, now, "perk_used", [perks_available |-> r.perks_available]))

\* Seeded fault (C11): the balance is checked before the activity flag.
use_perk_balance_first(m, now) ==
    LET r == refresh_if_needed(m, now)
    IN IF r.perks_available <= 0
       THEN Raise(log(r, now, "use_perk_denied_no_perks", None), "NoPerksAvailableError")
       ELSE IF ~r.is_active
       THEN Raise(log(r, now, "use_perk_denied_inactive", None), "InactiveMemberError")
       ELSE LET u == [r EXCEPT !.perks_available = @ - 1, !.perks_used = @ + 1]
            IN Return(log(u, now, "perk_used", [perks_available |-> u.perks_available]))

\* Seeded fault (C16): an inactive member is denied before the refresh check.
use_perk_denies_before_refresh(m, now) ==
    IF ~m.is_active
    THEN Raise(log(m, now, "use_perk_denied_inactive", None), "InactiveMemberError")
    ELSE LET r == refresh_if_needed(m, now)
         IN IF r.perks_available <= 0
            THEN Raise(log(r, now, "use_perk_denied_no_perks", None), "NoPerksAvailableError")
            ELSE LET u == [r EXCEPT !.perks_available = @ - 1, !.perks_used = @ + 1]
                 IN Return(log(u, now, "perk_used", [perks_available |-> u.perks_available]))

\* Seeded fault (C17): the balance is checked on the value held before the refresh.
use_perk_balance_before_refresh(m, now) ==
    LET r == refresh_if_needed(m, now)
    IN IF ~r.is_active
       THEN Raise(log(r, now, "use_perk_denied_inactive", None), "InactiveMemberError")
       ELSE IF m.perks_available <= 0
       THEN Raise(log(r, now, "use_perk_denied_no_perks", None), "NoPerksAvailableError")
       ELSE LET u == [r EXCEPT !.perks_available = @ - 1, !.perks_used = @ + 1]
            IN Return(log(u, now, "perk_used", [perks_available |-> u.perks_available]))

use_perk(m, now) ==
    LET r == refresh_if_needed(m, now)
    IN IF ~r.is_active
       THEN Raise(log(r, now, "use_perk_denied_inactive", None), "InactiveMemberError")
       ELSE IF r.perks_available <= 0
       THEN Raise(log(r, now, "use_perk_denied_no_perks", None), "NoPerksAvailableError")
       ELSE LET u == [r EXCEPT !.perks_available = @ - 1, !.perks_used = @ + 1]
            IN Return(log(u, now, "perk_used", [perks_available |-> u.perks_available]))

\* Seeded fault (C12): set_active runs the refresh check like the other actions.
set_active_refreshes(m, now, active) ==
    LET s == [refresh_if_needed(m, now) EXCEPT !.is_active = active]
    IN Return(log(s, now, "set_active", [is_active |-> s.is_active]))

set_active(m, now, active) ==
    LET s == [m EXCEPT !.is_active = active]
    IN Return(log(s, now, "set_active", [is_active |-> s.is_active]))

\* Seeded fault (C4): the tier change starts the new tier's month afresh.
apply_tier_change_resets_used(m, now, new_tier) ==
    LET r == refresh_if_needed(m, now)
        old_tier == r.tier
        t == [r EXCEPT !.tier = new_tier, !.perks_used = 0]
        remaining == Max(policy(t).monthly_perks - t.perks_used, 0)
        s == [t EXCEPT !.perks_available = remaining]
    IN Return(log(s, now, "tier_changed",
                  [old_tier |-> old_tier, new_tier |-> new_tier, perks_available |-> remaining]))

\* Seeded fault (C19): a change to the tier already held returns early.
apply_tier_change_skips_same_tier(m, now, new_tier) ==
    LET r == refresh_if_needed(m, now)
        old_tier == r.tier
        t == [r EXCEPT !.tier = new_tier]
        remaining == IF new_tier = old_tier THEN r.perks_available
                     ELSE Max(policy(t).monthly_perks - t.perks_used, 0)
        s == [t EXCEPT !.perks_available = remaining]
    IN Return(log(s, now, "tier_changed",
                  [old_tier |-> old_tier, new_tier |-> new_tier, perks_available |-> remaining]))

apply_tier_change(m, now, new_tier) ==
    LET r == refresh_if_needed(m, now)
        old_tier == r.tier
        t == [r EXCEPT !.tier = new_tier]
        remaining == Max(policy(t).monthly_perks - t.perks_used, 0)
        s == [t EXCEPT !.perks_available = remaining]
    IN Return(log(s, now, "tier_changed",
                  [old_tier |-> old_tier, new_tier |-> new_tier, perks_available |-> remaining]))

\* Seeded fault (C13): the tier returned is assigned without apply_tier_change.
sync_with_billing_sets_tier(m, now, billing) ==
    LET answer == billing[m.member_id]
        t == [m EXCEPT !.tier = answer.value]
        s == [t EXCEPT !.perks_available = policy(t).monthly_perks]
    IN Called("get_member_tier", <<m.member_id>>,
              IF answer.raised /= "None"
              THEN Raise(m, answer.raised)
              ELSE Return(log(s, now, "tier_changed",
                              [old_tier |-> m.tier, new_tier |-> answer.value,
                               perks_available |-> s.perks_available])))

\* Seeded fault (C14): the refresh check runs before the provider is asked.
sync_with_billing_refreshes_first(m, now, billing) ==
    LET r == refresh_if_needed(m, now)
        answer == billing[m.member_id]
    IN Called("get_member_tier", <<m.member_id>>,
              IF answer.raised /= "None"
              THEN Raise(r, answer.raised)
              ELSE apply_tier_change(r, now, answer.value))

sync_with_billing(m, now, billing) ==
    LET answer == billing[m.member_id]
    IN Called("get_member_tier", <<m.member_id>>,
              IF answer.raised /= "None"
              THEN Raise(m, answer.raised)
              ELSE apply_tier_change(m, now, answer.value))

\* Seeded fault (C6): the notification is logged before it is sent.
notify_logs_first(m, now, notifier, subject, body) ==
    LET s == log(m, now, "notified", [subject |-> subject])
    IN Called("send", <<m.member_id, subject, body>>,
              IF notifier /= "None" THEN Raise(s, notifier) ELSE Return(s))

notify(m, now, notifier, subject, body) ==
    Called("send", <<m.member_id, subject, body>>,
           IF notifier /= "None"
           THEN Raise(m, notifier)
           ELSE Return(log(m, now, "notified", [subject |-> subject])))

-----------------------------------------------------------------------------
(* MembershipService.  The directory holds references: svc is the sequence *)
(* of its keys in insertion order, heap the objects they refer to.  A      *)
(* service call returns [heap, svc, raised, calls].                        *)

Keys(svc) == {svc[i] : i \in 1..Len(svc)}

SvcResult(heap, svc, raised, calls) ==
    [heap |-> heap, svc |-> svc, raised |-> raised, calls |-> calls]

add_member(heap, svc, member_id) ==
    SvcResult(heap, IF member_id \in Keys(svc) THEN svc ELSE Append(svc, member_id),
              "None", <<>>)

get(heap, svc, member_id) ==
    IF member_id \notin Keys(svc)
    THEN SvcResult(heap, svc, "KeyError", <<>>)
    ELSE SvcResult(heap, svc, "None", <<>>)

svc_use_perk(heap, svc, now, member_id) ==
    LET found == get(heap, svc, member_id)
    IN IF found.raised /= "None"
       THEN found
       ELSE LET r == use_perk(heap[member_id], now)
            IN SvcResult([heap EXCEPT ![member_id] = r.self], svc, r.raised, r.calls)

\* Seeded fault (C18): a failing member is skipped and the loop goes on; the
\* error is raised once every member has been visited.
RECURSIVE sync_from_continues(_, _, _, _, _, _)
sync_from_continues(heap, svc, now, billing, i, calls) ==
    IF i > Len(svc)
    THEN SvcResult(heap, svc, "None", calls)
    ELSE LET r == sync_with_billing(heap[svc[i]], now, billing)
             h == [heap EXCEPT ![svc[i]] = r.self]
             rest == sync_from_continues(h, svc, now, billing, i + 1, calls \o r.calls)
         IN IF r.raised /= "None" THEN [rest EXCEPT !.raised = r.raised] ELSE rest

RECURSIVE sync_from(_, _, _, _, _, _)
sync_from(heap, svc, now, billing, i, calls) ==
    IF i > Len(svc)
    THEN SvcResult(heap, svc, "None", calls)
    ELSE LET r == sync_with_billing(heap[svc[i]], now, billing)
             h == [heap EXCEPT ![svc[i]] = r.self]
         IN IF r.raised /= "None"
            THEN SvcResult(h, svc, r.raised, calls \o r.calls)
            ELSE sync_from(h, svc, now, billing, i + 1, calls \o r.calls)

sync_all(heap, svc, now, billing) == sync_from(heap, svc, now, billing, 1, <<>>)

-----------------------------------------------------------------------------
(* State machine *)

\* No use_perk call is being followed statement by statement.
NoThreads == <<>>

Call(op, id, args, raised, calls) ==
    [op |-> op, id |-> id, args |-> args, raised |-> raised, calls |-> calls,
     at |-> clock, before |-> members, svc_before |-> svc_members]

Init ==
    /\ clock = StartInstant
    /\ \E tier \in TierNames, is_active \in BOOLEAN :
          /\ members = [id \in MemberIds |-> Membership(id, tier, is_active, clock)]
          /\ last = [op |-> "__init__", id |-> "001",
                     args |-> [tier |-> tier, is_active |-> is_active],
                     raised |-> "None", calls |-> <<>>, at |-> clock,
                     before |-> <<>>, svc_before |-> <<>>]
    /\ svc_members = <<>>
    /\ ncalls = 0
    /\ threads = NoThreads

ClockSet(dt) ==
    /\ ncalls < MaxCalls
    /\ clock' = dt
    /\ UNCHANGED <<members, svc_members, last, ncalls, threads>>

MemberCall(op, id, args, r) ==
    /\ ncalls < MaxCalls
    /\ members' = [members EXCEPT ![id] = r.self]
    /\ last' = Call(op, id, args, r.raised, r.calls)
    /\ ncalls' = ncalls + 1
    /\ UNCHANGED <<clock, svc_members, threads>>

ServiceCall(op, id, args, r) ==
    /\ ncalls < MaxCalls
    /\ members' = r.heap
    /\ svc_members' = r.svc
    /\ last' = Call(op, id, args, r.raised, r.calls)
    /\ ncalls' = ncalls + 1
    /\ UNCHANGED <<clock, threads>>

UsePerk(id) ==
    MemberCall("use_perk", id, None, use_perk(members[id], clock))

SetActive(id, active) ==
    MemberCall("set_active", id, [active |-> active], set_active(members[id], clock, active))

ApplyTierChange(id, new_tier) ==
    MemberCall("apply_tier_change", id, [new_tier |-> new_tier],
               apply_tier_change(members[id], clock, new_tier))

SyncWithBilling(id, billing) ==
    MemberCall("sync_with_billing", id, [billing |-> billing],
               sync_with_billing(members[id], clock, billing))

Notify(id, notifier, subject) ==
    MemberCall("notify", id, [notifier |-> notifier, subject |-> subject, body |-> "body"],
               notify(members[id], clock, notifier, subject, "body"))

SvcAddMember(id) ==
    ServiceCall("svc_add_member", id, None, add_member(members, svc_members, id))

SvcGet(id) ==
    ServiceCall("svc_get", id, None, get(members, svc_members, id))

SvcUsePerk(id) ==
    ServiceCall("svc_use_perk", id, None, svc_use_perk(members, svc_members, clock, id))

SvcSyncAll(billing) ==
    ServiceCall("svc_sync_all", "", [billing |-> billing],
                sync_all(members, svc_members, clock, billing))

Next ==
    \/ \E dt \in Instants : ClockSet(dt)
    \/ \E id \in DOMAIN members : UsePerk(id)
    \/ \E id \in DOMAIN members, active \in BOOLEAN : SetActive(id, active)
    \/ \E id \in DOMAIN members, t \in TierNames : ApplyTierChange(id, t)
    \/ \E id \in DOMAIN members, b \in BillingProviders : SyncWithBilling(id, b)
    \/ \E id \in DOMAIN members, n \in Notifiers, s \in Subjects : Notify(id, n, s)
    \/ \E id \in DOMAIN members : SvcAddMember(id)
    \/ \E id \in LookupIds : SvcGet(id)
    \/ \E id \in LookupIds : SvcUsePerk(id)
    \/ \E b \in BillingProviders : SvcSyncAll(b)

Spec == Init /\ [][Next]_vars

-----------------------------------------------------------------------------
(* A directory of several members *)

DirIds == {"001", "002", "003"}

\* The tier each member is constructed with.
DirTier(id) == CASE id = "001" -> "Bronze" [] id = "002" -> "Silver" [] OTHER -> "Gold"

\* The orders in which members are added: every sequence of distinct ids.
DirOrders ==
    {order \in UNION {[1..n -> DirIds] : n \in 0..Cardinality(DirIds)} :
        \A i, j \in DOMAIN order : i /= j => order[i] /= order[j]}

\* Providers that answer "Gold" or fail, member by member.
DirProviders ==
    [DirIds -> [raised : {"None"}, value : {"Gold"}]
               \cup [raised : {"BillingError"}, value : {""}]]

\* The directory after add_member of each member of order, in turn.
RECURSIVE AddedInOrder(_, _, _)
AddedInOrder(heap, svc, order) ==
    IF order = <<>> THEN svc
    ELSE AddedInOrder(heap, add_member(heap, svc, Head(order)).svc, Tail(order))

InitDir ==
    /\ clock = StartInstant
    /\ members = [id \in DirIds |-> Membership(id, DirTier(id), TRUE, clock)]
    /\ \E order \in DirOrders :
          /\ svc_members = AddedInOrder(members, <<>>, order)
          /\ last = [op |-> "__init__", id |-> "",
                     args |-> [order |-> order],
                     raised |-> "None", calls |-> <<>>, at |-> clock,
                     before |-> <<>>, svc_before |-> <<>>]
    /\ ncalls = 0
    /\ threads = NoThreads

NextDir ==
    \/ \E dt \in Instants : ClockSet(dt)
    \/ \E id \in DOMAIN members : SvcAddMember(id)
    \/ \E b \in DirProviders : SvcSyncAll(b)

SpecDir == InitDir /\ [][NextDir]_vars

-----------------------------------------------------------------------------
(* Two use_perk calls on one Membership, statement by statement.  A thread  *)
(* holds the locals of its call (now, key, unused, new_total, the value read *)
(* for an update or a log entry), the exception that ended it, the object as *)
(* it found and left it, and whether it ran with no other call in progress.  *)

Threads == {"t1", "t2"}

RaceMember == "001"

IdleThread ==
    [pc |-> "idle", now |-> StartInstant, key |-> <<>>, unused |-> 0, new_total |-> 0,
     read |-> 0, raised |-> "None", entry |-> <<>>, exit |-> <<>>, alone |-> TRUE]

\* Seeded fault (C20): the month key is not stored after the refresh.
write_month_key_skipped(m, t) == m

\* self._current_month_key = key
write_month_key(m, t) == [m EXCEPT !.current_month_key = t.key]

Finish(m, t, exc) ==
    [self |-> m, thread |-> [t EXCEPT !.pc = "done", !.raised = exc, !.exit = m]]

Goto(m, t, pc) == [self |-> m, thread |-> [t EXCEPT !.pc = pc]]

\* The next read, write or log append of use_perk for the thread t.
use_perk_step(m, t, now) ==
    CASE t.pc = "idle" ->
            Goto(m, [t EXCEPT !.now = now, !.key = month_key(now), !.entry = m], "check_key")
      [] t.pc = "check_key" ->
            IF t.key /= m.current_month_key
            THEN Goto(m, t, "refresh_read")
            ELSE Goto(m, t, "check_active")
      [] t.pc = "refresh_read" ->
            LET p == policy(m)
                unused == m.perks_available
                base == p.monthly_perks
                rollover_add == IF p.rollover_unused THEN unused ELSE 0
                total == base + rollover_add
                new_total == IF p.rollover_cap /= None
                             THEN Min(total, p.rollover_cap[1]) ELSE total
            IN Goto(m, [t EXCEPT !.unused = unused, !.new_total = new_total],
                    "refresh_write_available")
      [] t.pc = "refresh_write_available" ->
            Goto([m EXCEPT !.perks_available = t.new_total], t, "refresh_write_used")
      [] t.pc = "refresh_write_used" ->
            Goto([m EXCEPT !.perks_used = 0], t, "refresh_log_read")
      [] t.pc = "refresh_log_read" ->
            Goto(m, [t EXCEPT !.read = m.perks_available], "refresh_log_append")
      [] t.pc = "refresh_log_append" ->
            Goto(log(m, now, "month_refresh",
                     [unused_prev_month |-> t.unused, new_perks_available |-> t.read]),
                 t, "write_month_key")
      [] t.pc = "write_month_key" ->
            Goto(write_month_key(m, t), t, "check_active")
      [] t.pc = "check_active" ->
            IF ~m.is_active
            THEN Finish(log(m, now, "use_perk_denied_inactive", None), t, "InactiveMemberError")
            ELSE Goto(m, t, "check_perks")
      [] t.pc = "check_perks" ->
            IF m.perks_available <= 0
            THEN Goto(m, t, "deny_no_perks")
            ELSE Goto(m, t, "decrement_read")
      [] t.pc = "deny_no_perks" ->
            Finish(log(m, now, "use_perk_denied_no_perks", None), t, "NoPerksAvailableError")
      [] t.pc = "decrement_read" ->
            Goto(m, [t EXCEPT !.read = m.perks_available], "decrement_write")
      [] t.pc = "decrement_write" ->
            Goto([m EXCEPT !.perks_available = t.read - 1], t, "increment_read")
      [] t.pc = "increment_read" ->
            Goto(m, [t EXCEPT !.read = m.perks_used], "increment_write")
      [] t.pc = "increment_write" ->
            Goto([m EXCEPT !.perks_used = t.read + 1], t, "used_log_read")
      [] t.pc = "used_log_read" ->
            Goto(m, [t EXCEPT !.read = m.perks_available], "used_log_append")
      [] t.pc = "used_log_append" ->
            Finish(log(m, now, "perk_used", [perks_available |-> t.read]), t, "None")

InCall(t) == t.pc \notin {"idle", "done"}

InitRace ==
    /\ clock = StartInstant
    /\ \E tier \in TierNames, is_active \in BOOLEAN :
          /\ members = [id \in {RaceMember} |-> Membership(id, tier, is_active, clock)]
          /\ last = [op |-> "__init__", id |-> RaceMember,
                     args |-> [tier |-> tier, is_active |-> is_active],
                     raised |-> "None", calls |-> <<>>, at |-> clock,
                     before |-> <<>>, svc_before |-> <<>>]
    /\ svc_members = <<>>
    /\ ncalls = 0
    /\ threads = [t \in Threads |-> IdleThread]

\* The clock moves before the calls start.
RaceClockSet(dt) ==
    /\ \A t \in Threads : threads[t].pc = "idle"
    /\ clock' = dt
    /\ UNCHANGED <<members, svc_members, last, ncalls, threads>>

\* The thread t runs its next statement.
ThreadStep(t) ==
    /\ threads[t].pc /= "done"
    /\ LET r == use_perk_step(members[RaceMember], threads[t], clock)
           overlap == \E u \in Threads \ {t} : InCall(threads[u])
       IN /\ members' = [members EXCEPT ![RaceMember] = r.self]
          /\ threads' = [u \in Threads |->
                            IF u = t THEN [r.thread EXCEPT !.alone = @ /\ ~overlap]
                            ELSE [threads[u] EXCEPT !.alone = @ /\ ~InCall(threads[u])]]
    /\ UNCHANGED <<clock, svc_members, last, ncalls>>

NextRace ==
    \/ \E dt \in Instants : RaceClockSet(dt)
    \/ \E t \in Threads : ThreadStep(t)

SpecRace == InitRace /\ [][NextRace]_vars

-----------------------------------------------------------------------------
(* Reading the latest call *)

Before(id) == last.before[id]

\* The audit entries the latest call appended to member id's log.
Appended(id) ==
    LET old == IF id \in DOMAIN last.before THEN Len(last.before[id].audit_log) ELSE 0
    IN SubSeq(members[id].audit_log, old + 1, Len(members[id].audit_log))

RECURSIVE AppendedIn(_)
AppendedIn(ids) ==
    IF ids = {} THEN 0
    ELSE LET id == CHOOSE x \in ids : TRUE
         IN Len(Appended(id)) + AppendedIn(ids \ {id})

\* The number of audit entries the latest call appended, over all members.
AppendedTotal == AppendedIn(DOMAIN members)

\* The latest call ran Membership.use_perk on member id.
RanUsePerk(id) ==
    \/ last.op = "use_perk" /\ last.id = id
    \/ last.op = "svc_use_perk" /\ last.id = id /\ last.raised /= "KeyError"

\* The latest call ran Membership.apply_tier_change on member id.
RanTierChange(id) ==
    \/ last.op = "apply_tier_change" /\ last.id = id
    \/ last.op = "sync_with_billing" /\ last.id = id /\ last.raised = "None"
    \/ last.op = "svc_sync_all" /\ last.raised = "None" /\ id \in Keys(last.svc_before)

NewTierOf(id) ==
    IF last.op = "apply_tier_change" THEN last.args.new_tier ELSE last.args.billing[id].value

\* The clock's month at the latest call differed from the member's month key.
Stale(id) == month_key(last.at) /= Before(id).current_month_key

\* The tier table as the specification states it.
MonthlyPerksOf(tier) == IF tier \in DOMAIN TIER_POLICIES THEN TIER_POLICIES[tier].monthly_perks ELSE 0

RolloverOf(tier) == tier \in DOMAIN TIER_POLICIES /\ TIER_POLICIES[tier].rollover_unused

HasCap(tier) == tier \in DOMAIN TIER_POLICIES /\ TIER_POLICIES[tier].rollover_cap /= None

CapOf(tier) == TIER_POLICIES[tier].rollover_cap[1]

\* monthlyPerks + (unused if rolloverUnused else 0), reduced to rolloverCap.
Granted(tier, unused) ==
    LET total == MonthlyPerksOf(tier) + (IF RolloverOf(tier) THEN unused ELSE 0)
    IN IF HasCap(tier) THEN Min(total, CapOf(tier)) ELSE total

\* The counters after the refresh step of the latest call on member id.
RefreshedAvailable(id) ==
    IF Stale(id) THEN Granted(Before(id).tier, Before(id).perks_available)
    ELSE Before(id).perks_available

RefreshedUsed(id) == IF Stale(id) THEN 0 ELSE Before(id).perks_used

IsPrefix(s, t) == Len(s) <= Len(t) /\ SubSeq(t, 1, Len(s)) = s

CountOf(entries, actions) == Len(SelectSeq(entries, LAMBDA e : e.action \in actions))

-----------------------------------------------------------------------------
(* C1 *)

\* C1: in every reachable state perksAvailable >= 0 and perksUsed >= 0, and
\* when the current tier has a rolloverCap, perksAvailable <= that cap.
C1_BalanceWithinBounds ==
    \A id \in DOMAIN members :
        /\ members[id].perks_available >= 0
        /\ members[id].perks_used >= 0
        /\ HasCap(members[id].tier) => members[id].perks_available <= CapOf(members[id].tier)

\* A Gold member whose refresh was cut by the cap: 4 + unused exceeded 8.
C1_Witness ==
    \E id \in DOMAIN members :
        /\ RanUsePerk(id) /\ Stale(id)
        /\ Before(id).tier = "Gold"
        /\ Before(id).perks_available + 4 > 8
        /\ members[id].perks_available = 8

-----------------------------------------------------------------------------
(* C2 *)

\* C2 as stated: a use_perk that succeeds leaves perksAvailable 1 lower and
\* perksUsed 1 higher than immediately before the call, for every clock value.
C2_SuccessChangesByOneFromBefore ==
    \A id \in DOMAIN members :
        (RanUsePerk(id) /\ last.raised = "None") =>
            /\ members[id].perks_available = Before(id).perks_available - 1
            /\ members[id].perks_used = Before(id).perks_used + 1

\* C2 amended: a use_perk that succeeds leaves perksAvailable 1 lower and
\* perksUsed 1 higher than their values after the call's refresh step: the
\* values before the call when the clock's month key equals currentMonthKey,
\* the refreshed total and 0 when it differs.
C2_SuccessChangesByOneFromRefreshed ==
    \A id \in DOMAIN members :
        (RanUsePerk(id) /\ last.raised = "None") =>
            /\ members[id].perks_available = RefreshedAvailable(id) - 1
            /\ members[id].perks_used = RefreshedUsed(id) + 1
            /\ ~Stale(id) =>
                  /\ members[id].perks_available = Before(id).perks_available - 1
                  /\ members[id].perks_used = Before(id).perks_used + 1

\* A successful use_perk across a month boundary by a member who had used a perk.
C2_Witness ==
    \E id \in DOMAIN members :
        /\ RanUsePerk(id) /\ last.raised = "None" /\ Stale(id)
        /\ Before(id).perks_used = 1
        /\ members[id].perks_used = 1

-----------------------------------------------------------------------------
(* C3 *)

\* C3 as stated: a use_perk that fails leaves perksAvailable and perksUsed
\* equal to their values immediately before the call, for every clock value.
C3_FailureKeepsCountersFromBefore ==
    \A id \in DOMAIN members :
        (RanUsePerk(id) /\ last.raised /= "None") =>
            /\ members[id].perks_available = Before(id).perks_available
            /\ members[id].perks_used = Before(id).perks_used

\* C3 amended: a use_perk that fails leaves perksAvailable and perksUsed equal
\* to their values after the call's refresh step: the values before the call
\* when the clock's month key equals currentMonthKey (so an inactive member
\* with a nonzero balance keeps it), the refreshed total and 0 when it differs.
C3_FailureKeepsRefreshedCounters ==
    \A id \in DOMAIN members :
        (RanUsePerk(id) /\ last.raised /= "None") =>
            /\ last.raised \in {"InactiveMemberError", "NoPerksAvailableError"}
            /\ members[id].perks_available = RefreshedAvailable(id)
            /\ members[id].perks_used = RefreshedUsed(id)
            /\ ~Stale(id) =>
                  /\ members[id].perks_available = Before(id).perks_available
                  /\ members[id].perks_used = Before(id).perks_used

\* An inactive member with a nonzero balance is denied in the current month.
C3_Witness ==
    \E id \in DOMAIN members :
        /\ RanUsePerk(id) /\ last.raised = "InactiveMemberError" /\ ~Stale(id)
        /\ Before(id).perks_available > 0
        /\ members[id].perks_available = Before(id).perks_available

-----------------------------------------------------------------------------
(* C4 *)

\* C4 as stated: after apply_tier_change(newTier) perksUsed equals its value
\* immediately before the call, tier = newTier and
\* perksAvailable = max(monthlyPerks(newTier) - perksUsed, 0).
C4_TierChangeKeepsUsedFromBefore ==
    \A id \in DOMAIN members :
        RanTierChange(id) =>
            /\ members[id].perks_used = Before(id).perks_used
            /\ members[id].tier = NewTierOf(id)
            /\ members[id].perks_available =
                  Max(MonthlyPerksOf(NewTierOf(id)) - Before(id).perks_used, 0)

\* C4 amended: after apply_tier_change(newTier) perksUsed equals its value
\* after the call's refresh step (the value before the call when the clock's
\* month key equals currentMonthKey, 0 when a refresh was pending),
\* tier = newTier and perksAvailable = max(monthlyPerks(newTier) - perksUsed, 0).
C4_TierChangeKeepsRefreshedUsed ==
    \A id \in DOMAIN members :
        RanTierChange(id) =>
            /\ last.raised = "None"
            /\ members[id].perks_used = RefreshedUsed(id)
            /\ ~Stale(id) => members[id].perks_used = Before(id).perks_used
            /\ members[id].tier = NewTierOf(id)
            /\ members[id].perks_available =
                  Max(MonthlyPerksOf(NewTierOf(id)) - members[id].perks_used, 0)

\* A tier change in the current month by a member who used more perks than
\* the new tier grants: the balance is clamped at 0.
C4_Witness ==
    \E id \in DOMAIN members :
        /\ RanTierChange(id) /\ ~Stale(id)
        /\ Before(id).perks_used > MonthlyPerksOf(NewTierOf(id))
        /\ members[id].perks_used = Before(id).perks_used
        /\ members[id].perks_available = 0

-----------------------------------------------------------------------------
(* C5 *)

\* The entry a pending refresh writes first: month_refresh, stamped with the
\* call's clock reading and the tier held before the call, recording the
\* balance carried in and the refreshed total.
RefreshEntryOf(id) ==
    [timestamp |-> last.at,
     action |-> "month_refresh",
     member_id |-> id,
     tier |-> Before(id).tier,
     unused_prev_month |-> Before(id).perks_available,
     new_perks_available |-> Granted(Before(id).tier, Before(id).perks_available)]

\* C5: when use_perk or apply_tier_change is invoked while the clock's month
\* key differs from currentMonthKey, the refresh, computed with the policy of
\* the tier held before the call, sets perksAvailable to monthlyPerks + (the
\* previous balance if rolloverUnused else 0), reduced to rolloverCap, and
\* perksUsed to 0, before the action's own effect; a successful use_perk then
\* ends with that total - 1 and perksUsed = 1 (Gold with 3 left ends at 6,
\* Silver with 1 left ends at 1).
C5_RefreshBeforeEffect ==
    \A id \in DOMAIN members :
        ((RanUsePerk(id) \/ RanTierChange(id)) /\ Stale(id)) =>
            LET total == Granted(Before(id).tier, Before(id).perks_available)
            IN /\ Len(Appended(id)) = 2
               /\ Appended(id)[1] = RefreshEntryOf(id)
               /\ Appended(id)[2].action /= "month_refresh"
               /\ members[id].current_month_key = month_key(last.at)
               /\ (RanUsePerk(id) /\ last.raised = "None") =>
                      /\ total > 0
                      /\ members[id].perks_available = total - 1
                      /\ members[id].perks_used = 1
                      /\ Appended(id)[2].perks_available = total - 1
               /\ (RanUsePerk(id) /\ last.raised /= "None") =>
                      /\ members[id].perks_available = total
                      /\ members[id].perks_used = 0
               /\ RanTierChange(id) =>
                      /\ members[id].perks_used = 0
                      /\ Appended(id)[2].old_tier = Before(id).tier
               /\ (RanUsePerk(id) /\ last.raised = "None" /\ Before(id).tier = "Gold"
                      /\ Before(id).perks_available = 3) => members[id].perks_available = 6
               /\ (RanUsePerk(id) /\ last.raised = "None" /\ Before(id).tier = "Silver"
                      /\ Before(id).perks_available = 1) => members[id].perks_available = 1

\* The Gold scenario: 3 left, the month changes, the next use_perk ends at 6.
C5_Witness ==
    \E id \in DOMAIN members :
        /\ RanUsePerk(id) /\ last.raised = "None" /\ Stale(id)
        /\ Before(id).tier = "Gold" /\ Before(id).perks_available = 3
        /\ members[id].perks_available = 6 /\ members[id].perks_used = 1

-----------------------------------------------------------------------------
(* C6 *)

Denials == {"InactiveMemberError", "NoPerksAvailableError"}

\* C6 as stated: every operation that fails appends exactly one audit entry
\* during that call.
C6_EveryFailureLogsOnce == (last.raised /= "None") => AppendedTotal = 1

\* C6 amended: every operation that fails raises exactly one error.  A denied
\* use_perk appends exactly one denial entry, after one month_refresh entry
\* when a month refresh was pending; a billing-provider error inside
\* sync_with_billing, a notifier error inside notify and a Directory lookup
\* miss append no audit entry.
C6_DenialsLogOnceOthersNever ==
    /\ last.raised \in {"None", "InactiveMemberError", "NoPerksAvailableError",
                        "BillingError", "NotifierError", "KeyError"}
    /\ \A id \in DOMAIN members :
          (RanUsePerk(id) /\ last.raised /= "None") =>
              /\ last.raised \in Denials
              /\ CountOf(Appended(id), {"use_perk_denied_inactive", "use_perk_denied_no_perks"}) = 1
              /\ CountOf(Appended(id), {"month_refresh"}) = (IF Stale(id) THEN 1 ELSE 0)
              /\ AppendedTotal = (IF Stale(id) THEN 2 ELSE 1)
    /\ (last.raised \in {"BillingError", "NotifierError", "KeyError"}) =>
          /\ AppendedTotal = 0
          /\ members = last.before
    /\ (last.raised = "BillingError") => last.op \in {"sync_with_billing", "svc_sync_all"}
    /\ (last.raised = "NotifierError") => last.op = "notify"
    /\ (last.raised = "KeyError") => last.op \in {"svc_get", "svc_use_perk"}

\* A notifier error after a call that did log: the failed notify added nothing.
C6_Witness ==
    /\ last.op = "notify" /\ last.raised = "NotifierError"
    /\ \E id \in DOMAIN members :
          /\ Len(members[id].audit_log) = 2
          /\ Len(Appended(id)) = 0

-----------------------------------------------------------------------------
(* C7 *)

\* C7: the audit log is append-only: the log before any operation is a prefix
\* of the log after it, and the first entry is always the init_month entry
\* written at construction.
C7_AuditLogAppendOnly ==
    \A id \in DOMAIN members :
        /\ Len(members[id].audit_log) >= 1
        /\ members[id].audit_log[1].action = "init_month"
        /\ members[id].audit_log[1].timestamp = StartInstant
        /\ CountOf(members[id].audit_log, {"init_month"}) = 1
        /\ id \in DOMAIN last.before =>
              IsPrefix(Before(id).audit_log, members[id].audit_log)

\* A log of four entries built by two calls, the latest of which raised.
C7_Witness ==
    \E id \in DOMAIN members :
        /\ id \in DOMAIN last.before
        /\ last.raised /= "None"
        /\ Len(Before(id).audit_log) = 2
        /\ Len(members[id].audit_log) = 4

-----------------------------------------------------------------------------
(* C8 *)

Outcomes == {"use_perk_denied_inactive", "use_perk_denied_no_perks", "perk_used"}

OutcomeOf(raised) ==
    CASE raised = "InactiveMemberError" -> "use_perk_denied_inactive"
      [] raised = "NoPerksAvailableError" -> "use_perk_denied_no_perks"
      [] raised = "None" -> "perk_used"
      [] OTHER -> "no outcome"

\* C8: every use_perk call appends, as the last audit entry of the call,
\* exactly one outcome entry, matching its outcome; perk_used carries the new
\* balance.
C8_OutcomeEntryLast ==
    \A id \in DOMAIN members :
        RanUsePerk(id) =>
            LET new == Appended(id)
            IN /\ Len(new) >= 1
               /\ CountOf(new, Outcomes) = 1
               /\ new[Len(new)].action = OutcomeOf(last.raised)
               /\ new[Len(new)].timestamp = last.at
               /\ new[Len(new)].tier = members[id].tier
               /\ (last.raised = "None") =>
                      new[Len(new)].perks_available = members[id].perks_available
               /\ (last.raised /= "None") =>
                      "perks_available" \notin DOMAIN new[Len(new)]

\* An active member with no perks left is denied: the call's last entry says so.
C8_Witness ==
    \E id \in DOMAIN members :
        /\ RanUsePerk(id) /\ last.raised = "NoPerksAvailableError"
        /\ Before(id).perks_used = 1
        /\ members[id].audit_log[Len(members[id].audit_log)].action = "use_perk_denied_no_perks"

-----------------------------------------------------------------------------
(* C9 *)

\* The entries written by the operations that run refresh_if_needed (and by
\* construction, which takes the first month key).
Observing == {"init_month", "perk_used", "use_perk_denied_inactive",
              "use_perk_denied_no_perks", "tier_changed"}

\* The number of times the month key observed by those operations changed.
KeyChanges(entries) ==
    LET obs == SelectSeq(entries, LAMBDA e : e.action \in Observing)
    IN Cardinality({i \in 2..Len(obs) :
                      month_key(obs[i].timestamp) /= month_key(obs[i - 1].timestamp)})

\* C9: a use_perk or apply_tier_change invoked while the clock's month key
\* equals currentMonthKey performs no refresh (it appends no month_refresh
\* entry and keeps currentMonthKey), and the number of month_refresh entries
\* never exceeds the number of times the observed month key changed.
C9_RefreshOncePerMonthKey ==
    \A id \in DOMAIN members :
        /\ ((RanUsePerk(id) \/ RanTierChange(id)) /\ ~Stale(id)) =>
              /\ CountOf(Appended(id), {"month_refresh"}) = 0
              /\ Len(Appended(id)) = 1
              /\ members[id].current_month_key = Before(id).current_month_key
        /\ CountOf(members[id].audit_log, {"month_refresh"}) <= KeyChanges(members[id].audit_log)

\* A call that refreshed is followed, within the new month, by a call that
\* does not: one month_refresh entry, written by the earlier call.
C9_Witness ==
    \E id \in DOMAIN members :
        /\ (RanUsePerk(id) \/ RanTierChange(id)) /\ ~Stale(id)
        /\ month_key(last.at) /= month_key(StartInstant)
        /\ CountOf(Before(id).audit_log, {"month_refresh"}) = 1
        /\ CountOf(members[id].audit_log, {"month_refresh"}) = 1

-----------------------------------------------------------------------------
(* C10 *)

Unknown(tier) == tier \notin DOMAIN TIER_POLICIES

\* C10: an unknown tier name never causes an error and behaves as a zero-perk,
\* no-rollover policy: whenever tier is not a key of the policy table,
\* perksAvailable = 0 and every use_perk by an active member raises
\* NoPerksAvailable.
C10_UnknownTierHasNoPerks ==
    \A id \in DOMAIN members :
        /\ Unknown(members[id].tier) =>
              /\ members[id].perks_available = 0
              /\ members[id].is_active =>
                    \A dt \in Instants :
                        /\ use_perk(members[id], dt).raised = "NoPerksAvailableError"
                        /\ use_perk(members[id], dt).self.perks_available = 0
        /\ (RanUsePerk(id) /\ Unknown(Before(id).tier) /\ Before(id).is_active) =>
              last.raised = "NoPerksAvailableError"
        /\ (RanTierChange(id) /\ Unknown(NewTierOf(id))) => last.raised = "None"

\* A member moved to an unknown tier is denied in the next month: the refresh
\* granted nothing.
C10_Witness ==
    \E id \in DOMAIN members :
        /\ RanUsePerk(id) /\ Stale(id)
        /\ Unknown(Before(id).tier) /\ Before(id).is_active
        /\ Len(Before(id).audit_log) = 2
        /\ last.raised = "NoPerksAvailableError"
        /\ members[id].perks_available = 0

-----------------------------------------------------------------------------
(* C11 *)

\* C11: activity gating takes precedence over the balance check: an inactive
\* member's use_perk raises InactiveMember for every tier and balance,
\* including 0; an active member's use_perk raises NoPerksAvailable exactly
\* when the balance after the refresh check is 0 and succeeds otherwise.
C11_ActivityBeforeBalance ==
    \A id \in DOMAIN members :
        RanUsePerk(id) =>
            /\ ~Before(id).is_active => last.raised = "InactiveMemberError"
            /\ Before(id).is_active =>
                  /\ (last.raised = "NoPerksAvailableError") <=> (RefreshedAvailable(id) = 0)
                  /\ (last.raised = "None") <=> (RefreshedAvailable(id) > 0)

\* An inactive member with nothing left is denied for inactivity.
C11_Witness ==
    \E id \in DOMAIN members :
        /\ RanUsePerk(id) /\ ~Before(id).is_active
        /\ RefreshedAvailable(id) = 0
        /\ last.raised = "InactiveMemberError"

-----------------------------------------------------------------------------
(* C12 *)

\* C12: set_active(b) triggers no refresh: at every clock reading, also one in
\* another month than currentMonthKey, it sets isActive to b, appends exactly
\* one set_active entry and leaves perksAvailable, perksUsed, tier and
\* currentMonthKey unchanged.
C12_SetActiveOnlySetsFlag ==
    \A id \in DOMAIN members :
        (last.op = "set_active" /\ last.id = id) =>
            /\ last.raised = "None"
            /\ members[id].is_active = last.args.active
            /\ members[id].perks_available = Before(id).perks_available
            /\ members[id].perks_used = Before(id).perks_used
            /\ members[id].tier = Before(id).tier
            /\ members[id].current_month_key = Before(id).current_month_key
            /\ Appended(id) = <<[timestamp |-> last.at,
                                 action |-> "set_active",
                                 member_id |-> id,
                                 tier |-> Before(id).tier,
                                 is_active |-> last.args.active]>>
            /\ IsPrefix(Before(id).audit_log, members[id].audit_log)

\* A member with a used perk is deactivated in a later month: nothing is refreshed.
C12_Witness ==
    \E id \in DOMAIN members :
        /\ last.op = "set_active" /\ last.id = id /\ Stale(id)
        /\ Before(id).is_active /\ ~members[id].is_active
        /\ members[id].perks_used = 1

-----------------------------------------------------------------------------
(* C13 *)

GetMemberTierOnce(id) == <<[fn |-> "get_member_tier", args |-> <<id>>]>>

\* C13: sync_with_billing(provider) is apply_tier_change of the tier the
\* provider returns: the resulting tier, perksAvailable, perksUsed,
\* currentMonthKey and appended audit entries are those of apply_tier_change
\* from the same state, and the provider is queried exactly once, with the
\* member's own id.
C13_SyncIsTierChange ==
    \A id \in DOMAIN members :
        (last.op = "sync_with_billing" /\ last.id = id) =>
            /\ last.calls = GetMemberTierOnce(id)
            /\ (last.args.billing[id].raised = "None") =>
                  LET direct == apply_tier_change(Before(id), last.at, last.args.billing[id].value)
                  IN /\ last.raised = direct.raised
                     /\ members[id] = direct.self
                     /\ members[id].tier = last.args.billing[id].value
                     /\ Appended(id)[Len(Appended(id))].action = "tier_changed"

\* A sync in a later month that moves a member who used a perk to another tier.
C13_Witness ==
    \E id \in DOMAIN members :
        /\ last.op = "sync_with_billing" /\ last.id = id /\ last.raised = "None"
        /\ Stale(id)
        /\ Before(id).perks_used = 1
        /\ members[id].tier /= Before(id).tier

-----------------------------------------------------------------------------
(* C14 *)

\* C14: when the billing provider fails inside sync_with_billing the error is
\* propagated and the Membership is left entirely unchanged (tier,
\* perksAvailable, perksUsed, currentMonthKey, audit log); a pending month
\* refresh is not applied, the provider being consulted before the refresh
\* check.
C14_BillingFailureChangesNothing ==
    \A id \in DOMAIN members :
        (last.op = "sync_with_billing" /\ last.id = id
            /\ last.args.billing[id].raised /= "None") =>
            /\ last.raised = last.args.billing[id].raised
            /\ members[id] = Before(id)
            /\ last.calls = GetMemberTierOnce(id)

\* The provider fails while a month refresh is pending.
C14_Witness ==
    \E id \in DOMAIN members :
        /\ last.op = "sync_with_billing" /\ last.id = id
        /\ last.raised = "BillingError"
        /\ Stale(id)
        /\ members[id].current_month_key /= month_key(last.at)
        /\ Len(members[id].audit_log) = 2

-----------------------------------------------------------------------------
(* C15 *)

\* What use_perk leaves of the balance after one refresh step.
AfterOneRefresh(tier, is_active, unused) ==
    IF is_active /\ Granted(tier, unused) > 0
    THEN Granted(tier, unused) - 1
    ELSE Granted(tier, unused)

\* C15: a gap of any number of months collapses to a single refresh: the next
\* use_perk or apply_tier_change applies exactly one refresh step and appends
\* exactly one month_refresh entry, and the resulting perksAvailable and
\* perksUsed depend only on the balance and tier before the call, not on the
\* number of month boundaries skipped.
C15_GapIsOneRefresh ==
    \A id \in DOMAIN members :
        /\ ((RanUsePerk(id) \/ RanTierChange(id)) /\ Stale(id)) =>
              /\ CountOf(Appended(id), {"month_refresh"}) = 1
              /\ Appended(id)[1].unused_prev_month = Before(id).perks_available
              /\ Appended(id)[1].new_perks_available =
                    Granted(Before(id).tier, Before(id).perks_available)
              /\ RanUsePerk(id) =>
                    members[id].perks_available =
                        AfterOneRefresh(Before(id).tier, Before(id).is_active,
                                        Before(id).perks_available)
        /\ \A dt \in Instants :
              (month_key(dt) /= members[id].current_month_key) =>
                  LET r == use_perk(members[id], dt).self
                  IN /\ r.perks_available =
                           AfterOneRefresh(members[id].tier, members[id].is_active,
                                           members[id].perks_available)
                     /\ r.perks_used = (IF r.perks_available < Granted(members[id].tier,
                                                members[id].perks_available) THEN 1 ELSE 0)
                     /\ Len(r.audit_log) = Len(members[id].audit_log) + 2

\* Eleven months pass between two calls of a Gold member.
C15_Witness ==
    \E id \in DOMAIN members :
        /\ RanUsePerk(id) /\ Stale(id)
        /\ Before(id).tier = "Gold"
        /\ Before(id).current_month_key = month_key(Date(2025, 6, 1))
        /\ last.at = Date(2026, 5, 1)
        /\ CountOf(members[id].audit_log, {"month_refresh"}) = 2

-----------------------------------------------------------------------------
(* C16 *)

\* The clock reading stamped on the latest entry written by construction, a
\* use_perk or an apply_tier_change.
LastObserved(entries) ==
    LET obs == SelectSeq(entries, LAMBDA e : e.action \in Observing)
    IN obs[Len(obs)].timestamp

\* C16: currentMonthKey is brought up to date by every use_perk and
\* apply_tier_change, whether it returns or raises, and by nothing else: after
\* such a call it is the month key of the clock reading the call saw, and
\* between such calls it keeps the month of the last construction or refresh
\* check while the clock moves on.
C16_MonthKeyFollowsRefreshingCalls ==
    \A id \in DOMAIN members :
        /\ members[id].current_month_key = month_key(LastObserved(members[id].audit_log))
        /\ (RanUsePerk(id) \/ RanTierChange(id)) =>
              members[id].current_month_key = month_key(last.at)
        /\ (id \in DOMAIN last.before /\ ~RanUsePerk(id) /\ ~RanTierChange(id)) =>
              members[id].current_month_key = Before(id).current_month_key

\* The key was brought to 2025-06 by a denied use_perk and stays there while
\* set_active runs a year later.
C16_Witness ==
    \E id \in DOMAIN members :
        /\ last.op = "set_active" /\ last.id = id
        /\ last.at = Date(2026, 5, 1)
        /\ members[id].current_month_key = month_key(Date(2025, 6, 1))
        /\ members[id].audit_log[Len(members[id].audit_log) - 1].action
              = "use_perk_denied_inactive"

-----------------------------------------------------------------------------
(* C17 *)

\* C17: NoPerksAvailable is recoverable next month: for an active member whose
\* tier is Bronze, Silver or Gold, the first use_perk invoked after the clock's
\* month key has become different from currentMonthKey succeeds, whatever the
\* balance before the boundary, 0 included.
C17_NextMonthUseSucceeds ==
    \A id \in DOMAIN members :
        (RanUsePerk(id) /\ Stale(id) /\ Before(id).is_active
            /\ Before(id).tier \in {"Bronze", "Silver", "Gold"}) =>
            /\ last.raised = "None"
            /\ members[id].perks_available >= 0
            /\ members[id].perks_used = 1

\* A Bronze member who had nothing left uses a perk in the next month.
C17_Witness ==
    \E id \in DOMAIN members :
        /\ RanUsePerk(id) /\ Stale(id) /\ Before(id).is_active
        /\ Before(id).tier = "Bronze" /\ Before(id).perks_available = 0
        /\ last.raised = "None"

-----------------------------------------------------------------------------
(* C19 *)

\* C19 as stated: after every apply_tier_change(newTier),
\* perksAvailable <= monthlyPerks(newTier): rolled-over credit is discarded,
\* also when newTier is the tier already held, so a change to the current tier
\* is not a no-op and never increases perksAvailable.
C19_TierChangeNeverIncreases ==
    \A id \in DOMAIN members :
        RanTierChange(id) =>
            /\ members[id].perks_available <= MonthlyPerksOf(NewTierOf(id))
            /\ Len(Appended(id)) >= 1
            /\ (NewTierOf(id) = Before(id).tier) =>
                  members[id].perks_available <= Before(id).perks_available

\* The balance a change to the held tier leaves, from the state m, in the
\* month of m's key.
SameTierChange(m) ==
    apply_tier_change(m, LastObserved(m.audit_log), m.tier).self

\* C19 amended: after every apply_tier_change(newTier),
\* perksAvailable <= monthlyPerks(newTier): rolled-over credit is discarded,
\* also when newTier is the tier already held (Gold drops to 4 - perksUsed),
\* so a change to the current tier is not a no-op (it appends a tier_changed
\* entry and may lower the balance) and never increases perksAvailable above
\* its value after the call's refresh step: above its value before the call
\* when the clock's month key equals currentMonthKey, above the refreshed
\* total when a month refresh was pending.
C19_TierChangeDropsRollover ==
    \A id \in DOMAIN members :
        /\ RanTierChange(id) =>
              /\ members[id].perks_available <= MonthlyPerksOf(NewTierOf(id))
              /\ Len(Appended(id)) >= 1
              /\ Appended(id)[Len(Appended(id))].action = "tier_changed"
              /\ (NewTierOf(id) = Before(id).tier) =>
                    /\ members[id].perks_available <= RefreshedAvailable(id)
                    /\ members[id].perks_available =
                          Max(MonthlyPerksOf(Before(id).tier) - RefreshedUsed(id), 0)
        /\ SameTierChange(members[id]).perks_available <= members[id].perks_available
        /\ (members[id].tier = "Gold") =>
              SameTierChange(members[id]).perks_available = Max(4 - members[id].perks_used, 0)

\* A Gold member holding 8 after a rollover changes to Gold and is left with 4.
C19_Witness ==
    \E id \in DOMAIN members :
        /\ RanTierChange(id) /\ ~Stale(id)
        /\ NewTierOf(id) = "Gold" /\ Before(id).tier = "Gold"
        /\ Before(id).perks_available = 8
        /\ members[id].perks_available = 4

-----------------------------------------------------------------------------
(* C18 *)

\* The position in svc of the first member the provider fails for, or
\* Len(svc) + 1 when it answers for all.
FirstFailure(svc, billing) ==
    LET failing == {i \in 1..Len(svc) : billing[svc[i]].raised /= "None"}
    IN IF failing = {} THEN Len(svc) + 1
       ELSE CHOOSE i \in failing : \A j \in failing : i <= j

\* C18: sync_all aborts at the first failing member: members are visited in
\* insertion order, and when the provider fails for one the error propagates
\* out of sync_all, every member visited earlier keeps its applied tier change,
\* and the failing member and every later member are left unchanged.
C18_SyncAllAbortsAtFirstFailure ==
    /\ (last.op = "svc_add_member") =>
          svc_members = (IF last.id \in Keys(last.svc_before) THEN last.svc_before
                         ELSE Append(last.svc_before, last.id))
    /\ (last.op = "svc_sync_all") =>
          LET svc == last.svc_before
              billing == last.args.billing
              k == FirstFailure(svc, billing)
          IN /\ svc_members = svc
             /\ last.raised = (IF k <= Len(svc) THEN billing[svc[k]].raised ELSE "None")
             /\ last.calls = [i \in 1..Min(k, Len(svc)) |->
                                [fn |-> "get_member_tier", args |-> <<svc[i]>>]]
             /\ \A i \in 1..Len(svc) :
                   /\ (i < k) =>
                         /\ members[svc[i]].tier = billing[svc[i]].value
                         /\ Len(Appended(svc[i])) >= 1
                         /\ Appended(svc[i])[Len(Appended(svc[i]))].action = "tier_changed"
                         /\ Appended(svc[i])[Len(Appended(svc[i]))].old_tier = Before(svc[i]).tier
                   /\ (i >= k) => members[svc[i]] = Before(svc[i])
             /\ \A id \in DOMAIN members \ Keys(svc) : members[id] = Before(id)

\* Three members; the provider fails for the second: the first is changed,
\* the second and the third are not.
C18_Witness ==
    /\ last.op = "svc_sync_all" /\ last.raised = "BillingError"
    /\ Len(last.svc_before) = 3
    /\ FirstFailure(last.svc_before, last.args.billing) = 2
    /\ last.args.billing[last.svc_before[3]].raised = "None"
    /\ members[last.svc_before[1]].tier = "Gold"
    /\ Before(last.svc_before[1]).tier /= "Gold"
    /\ members[last.svc_before[3]].tier /= "Gold"
    /\ Len(last.calls) = 2

-----------------------------------------------------------------------------
(* C20 *)

\* The balance once the month's refresh, if any, has been applied to the
\* balance the member was constructed with.
RaceRefreshed(m) ==
    IF CountOf(m.audit_log, {"month_refresh"}) = 0
    THEN m.audit_log[1].perks_available
    ELSE Granted(m.tier, m.audit_log[1].perks_available)

\* The month refresh was applied twice for the one month transition.
DoubleRefresh(m) == CountOf(m.audit_log, {"month_refresh"}) >= 2

\* Both calls succeeded and the balance is only 1 lower.
LostDecrement(m) ==
    /\ \A t \in Threads : threads[t].pc = "done" /\ threads[t].raised = "None"
    /\ m.perks_available = RaceRefreshed(m) - 1

\* C20: with each of two use_perk calls on one Membership executed atomically
\* (no statement of one runs while the other is in progress), each call does
\* what use_perk does, the refresh is applied at most once for the month
\* transition and two successful calls lower perksAvailable by 2; interleaved
\* at the granularity of the reads, writes and log appends, a state with a
\* double refresh and a lost decrement is reachable (the witness).
C20_AtomicCallsAreSafe ==
    /\ \A t \in Threads :
          (threads[t].pc = "done" /\ threads[t].alone) =>
              /\ threads[t].exit = use_perk(threads[t].entry, threads[t].now).self
              /\ threads[t].raised = use_perk(threads[t].entry, threads[t].now).raised
    /\ (\A t \in Threads : threads[t].alone) =>
          /\ ~DoubleRefresh(members[RaceMember])
          /\ ~LostDecrement(members[RaceMember])
          /\ (\A t \in Threads : threads[t].pc = "done" /\ threads[t].raised = "None") =>
                /\ members[RaceMember].perks_available
                      = RaceRefreshed(members[RaceMember]) - 2
                /\ members[RaceMember].perks_used = 2

\* Two interleaved calls of a Gold member in a new month: both refresh, the
\* second rolling over the 8 the first had just granted, and both succeed
\* while the balance goes from 8 to 7 only.
C20_Witness ==
    LET m == members[RaceMember]
        refreshes == SelectSeq(m.audit_log, LAMBDA e : e.action = "month_refresh")
    IN /\ m.tier = "Gold"
       /\ \A t \in Threads : threads[t].pc = "done" /\ ~threads[t].alone
       /\ DoubleRefresh(m)
       /\ refreshes[1].unused_prev_month = 4
       /\ refreshes[2].unused_prev_month = 8
       /\ LostDecrement(m)
       /\ m.perks_available = 7

====
